---- MODULE Spec2Model ----
(***************************************************************************)
(* A model of fatZimReader.py: the ArticleParser (markup tree to widget    *)
(* sequence, link registration, link normalisation) and the WikiApp        *)
(* controller (mode state machine, history stack, link-focus cycling).     *)
(*                                                                         *)
(* Strings are sequences of one-character strings, so that len(), slicing, *)
(* str.replace, str.split and urllib.parse.unquote are computed as Python  *)
(* computes them.                                                          *)
(***************************************************************************)
EXTENDS Integers, Sequences, FiniteSets, TLC

VARIABLES
    \* ---- WikiApp (the controller) ----
    mode,            \* self.mode
    history,         \* self.history
    current_links,   \* self.current_links
    link_widgets,    \* self.link_widgets
    search_results,  \* self.search_results
    result_widgets,  \* self.result_widgets
    content_walker,  \* self.content_walker (the widgets on display)
    focus_position,  \* self.content_walker.focus_position (0 = nothing)
    frame_focus,     \* self.frame.focus_position
    status_text,     \* self.status_text
    search_edit,     \* self.search_edit's text
    running,         \* the main loop runs (no quit, no uncaught exception)
    key,             \* the key the latest handle_input call received
    zim_call,        \* the call of self.zim that handle_input call made
    \* ---- ArticleParser (one parse of one page) ----
    soup,            \* self.soup
    parser,          \* self.links, self.text_widgets, self.link_widgets
    max_width,       \* self.max_width
    table,           \* the locals of _process_table (one layout of one table)
    pc               \* where the parse stands

navvars == <<mode, history, current_links, link_widgets, search_results,
             result_widgets, content_walker, focus_position, frame_focus,
             status_text, search_edit, running, key, zim_call>>
parsevars == <<soup, parser, max_width, table, pc>>
vars == <<navvars, parsevars>>

(***************************************************************************)
(* Bounds of the model.                                                    *)
(***************************************************************************)
MaxSegs == 4        \* segments of a generated target reference
MaxHistory == 3     \* forward navigation stops at this history depth
MaxMatches == 2     \* results the archive's searcher finds for a query

(***************************************************************************)
(* Python strings.                                                         *)
(***************************************************************************)
Min(a, b) == IF a <= b THEN a ELSE b
Max(a, b) == IF a >= b THEN a ELSE b

Whitespace == {" ", "\n", "\t"}

\* s.startswith(p)
StartsWith(s, p) == Len(p) <= Len(s) /\ SubSeq(s, 1, Len(p)) = p

\* s[i:] with a 1-based i
From(s, i) == SubSeq(s, i, Len(s))

\* s.find(sub) as a 1-based index, 0 when sub does not occur (sub non-empty)
Find(s, sub) ==
    LET hits == {i \in 1..(Len(s) - Len(sub) + 1) : SubSeq(s, i, i + Len(sub) - 1) = sub}
    IN IF hits = {} THEN 0 ELSE CHOOSE i \in hits : \A j \in hits : i <= j

\* s.replace(old, new): every non-overlapping occurrence, left to right
RECURSIVE Replace(_, _, _)
Replace(s, old, new) ==
    LET i == Find(s, old)
    IN IF i = 0 THEN s
       ELSE SubSeq(s, 1, i - 1) \o new \o Replace(From(s, i + Len(old)), old, new)

\* s.split(sep)[0] for a one-character sep
SplitFirst(s, sep) ==
    LET i == Find(s, <<sep>>)
    IN IF i = 0 THEN s ELSE SubSeq(s, 1, i - 1)

\* s.lstrip(), s.rstrip(), s.strip()
RECURSIVE LStrip(_)
LStrip(s) == IF s # <<>> /\ Head(s) \in Whitespace THEN LStrip(Tail(s)) ELSE s
RECURSIVE RStrip(_)
RStrip(s) ==
    IF s # <<>> /\ s[Len(s)] \in Whitespace THEN RStrip(SubSeq(s, 1, Len(s) - 1)) ELSE s
Strip(s) == RStrip(LStrip(s))

\* the concatenation of a sequence of strings
RECURSIVE Concat(_)
Concat(ss) == IF ss = <<>> THEN <<>> ELSE Head(ss) \o Concat(Tail(ss))

\* int(c, 16) for one hexadecimal digit, -1 for any other character
HexVal(c) ==
    CASE c = "0" -> 0 [] c = "1" -> 1 [] c = "2" -> 2 [] c = "3" -> 3
      [] c = "4" -> 4 [] c = "5" -> 5 [] c = "6" -> 6 [] c = "7" -> 7
      [] c = "8" -> 8 [] c = "9" -> 9
      [] c \in {"a", "A"} -> 10 [] c \in {"b", "B"} -> 11 [] c \in {"c", "C"} -> 12
      [] c \in {"d", "D"} -> 13 [] c \in {"e", "E"} -> 14 [] c \in {"f", "F"} -> 15
      [] OTHER -> -1

\* chr(n) for the character codes an escape of the model's references can name
Chr(n) ==
    CASE n = 32 -> " " [] n = 35 -> "#" [] n = 37 -> "%" [] n = 42 -> "*" [] n = 46 -> "."
      [] n = 47 -> "/" [] n = 58 -> ":" [] n = 95 -> "_"

\* urllib.parse.unquote(s): %XX with two hex digits is decoded, any other % is kept
RECURSIVE Unquote(_)
Unquote(s) ==
    IF s = <<>> THEN <<>>
    ELSE IF Head(s) = "%" /\ Len(s) >= 3 /\ HexVal(s[2]) >= 0 /\ HexVal(s[3]) >= 0
         THEN <<Chr(16 * HexVal(s[2]) + HexVal(s[3]))>> \o Unquote(From(s, 4))
         ELSE <<Head(s)>> \o Unquote(Tail(s))

(***************************************************************************)
(* The markup tree BeautifulSoup hands to the parser.  A node is a record  *)
(* [name, attrs, text, children]; a text node has name "#text".  attrs.has *)
(* is the set of attributes the tag carries.                               *)
(***************************************************************************)
NoAttrs == [has |-> {}, id |-> <<>>, href |-> <<>>, colspan |-> 1, rowspan |-> 1]

TextNode(s) == [name |-> "#text", attrs |-> NoAttrs, text |-> s, children |-> <<>>]
Elem(name, children) ==
    [name |-> name, attrs |-> NoAttrs, text |-> <<>>, children |-> children]
ElemId(name, id, children) ==
    [name |-> name, attrs |-> [NoAttrs EXCEPT !.has = {"id"}, !.id = id],
     text |-> <<>>, children |-> children]
Anchor(href, children) ==
    [name |-> "a", attrs |-> [NoAttrs EXCEPT !.has = {"href"}, !.href = href],
     text |-> <<>>, children |-> children]
Cell(name, colspan, rowspan, children) ==
    [name |-> name,
     attrs |-> [NoAttrs EXCEPT !.has = {"colspan", "rowspan"},
                               !.colspan = colspan, !.rowspan = rowspan],
     text |-> <<>>, children |-> children]

\* tag.get_text(): the text nodes below the tag, concatenated in document order
RECURSIVE GetText(_)
GetText(n) ==
    IF n.name = "#text" THEN n.text
    ELSE LET RECURSIVE Each(_)
             Each(ns) == IF ns = <<>> THEN <<>> ELSE GetText(Head(ns)) \o Each(Tail(ns))
         IN Each(n.children)

\* tag.get_text(" ", strip=True): the stripped, non-empty text nodes joined by " "
RECURSIVE StrippedStrings(_)
StrippedStrings(n) ==
    IF n.name = "#text"
    THEN (IF Strip(n.text) = <<>> THEN <<>> ELSE <<Strip(n.text)>>)
    ELSE LET RECURSIVE Each(_)
             Each(ns) ==
                 IF ns = <<>> THEN <<>> ELSE StrippedStrings(Head(ns)) \o Each(Tail(ns))
         IN Each(n.children)

\* sep.join(ss)
RECURSIVE Join(_, _)
Join(ss, sep) ==
    IF ss = <<>> THEN <<>>
    ELSE IF Len(ss) = 1 THEN Head(ss)
    ELSE Head(ss) \o sep \o Join(Tail(ss), sep)

GetTextSep(n) == Join(StrippedStrings(n), <<" ">>)

\* tag.find_all(names): the tags below the tag, in document order
RECURSIVE FindAll(_, _)
FindAll(n, names) ==
    LET RECURSIVE Each(_)
        Each(ns) ==
            IF ns = <<>> THEN <<>>
            ELSE (IF Head(ns).name \in names THEN <<Head(ns)>> ELSE <<>>)
                 \o FindAll(Head(ns), names) \o Each(Tail(ns))
    IN Each(n.children)

\* tag.find_all(names, recursive=False): among the tag's own children only
FindAllDirect(n, names) == SelectSeq(n.children, LAMBDA c : c.name \in names)

\* tag.find_all('a', href=True)
FindAnchors(n) == SelectSeq(FindAll(n, {"a"}), LAMBDA a : "href" \in a.attrs.has)

\* the tree after tag.decompose() of every tag below n named in names
RECURSIVE Decompose(_, _)
Decompose(n, names) ==
    LET RECURSIVE Each(_)
        Each(ns) ==
            IF ns = <<>> THEN <<>>
            ELSE (IF Head(ns).name \in names THEN <<>>
                  ELSE <<Decompose(Head(ns), names)>>) \o Each(Tail(ns))
    IN [n EXCEPT !.children = Each(n.children)]

(***************************************************************************)
(* urwid widgets.  Box-drawing and other non-ASCII characters are written  *)
(* as one ASCII character each, so that every length is the source's.      *)
(***************************************************************************)
ChArrow == ">"     \* U+2192, the arrow of a link line
ChBullet == "*"    \* U+2022, the bullet of a list item

UrwidText(attr, s) ==
    [widget |-> "Text", attr |-> attr, text |-> s, path |-> <<>>, index |-> -1]
UrwidDivider(ch) ==
    [widget |-> "Divider", attr |-> "", text |-> ch, path |-> <<>>, index |-> -1]
\* AttrMap(SelectableText(('link', ...)), 'link', focus_map='link_focus') with
\* link_path and link_index set
LinkWidget(link_path, link_text, link_index) ==
    [widget |-> "Link", attr |-> "link",
     text |-> <<ChArrow, " ", "[">> \o link_text \o <<"]">>,
     path |-> link_path, index |-> link_index]

(***************************************************************************)
(* ArticleParser.                                                          *)
(***************************************************************************)
\* raised: an exception left the parse (the fields are what they were then)
NewParser ==
    [links |-> <<>>, text_widgets |-> <<>>, link_widgets |-> <<>>, raised |-> FALSE]

\* IsExternal without its last test
IsExternalButMailto(href) ==
    \/ StartsWith(href, <<"h", "t", "t", "p", ":", "/", "/">>)
    \/ StartsWith(href, <<"h", "t", "t", "p", "s", ":", "/", "/">>)
    \/ StartsWith(href, <<"/", "/">>)
    \/ StartsWith(href, <<"#">>)

IsExternal(href) ==
    \/ StartsWith(href, <<"h", "t", "t", "p", ":", "/", "/">>)
    \/ StartsWith(href, <<"h", "t", "t", "p", "s", ":", "/", "/">>)
    \/ StartsWith(href, <<"/", "/">>)
    \/ StartsWith(href, <<"#">>)
    \/ StartsWith(href, <<"m", "a", "i", "l", "t", "o", ":">>)

\* link_path of an internal reference
NormalizeLink(href) ==
    LET link_path == SplitFirst(href, "#")
    IN Unquote(Replace(Replace(Replace(link_path, <<".", ".", "/">>, <<>>),
                               <<"/", "w", "i", "k", "i", "/">>, <<>>),
                       <<" ">>, <<"_">>))

\* NextLinkIndex with the index read after the append
NextLinkIndexAfterAppend(P) == Len(P.links) + 1

\* link_index of the link about to be registered
NextLinkIndex(P) == Len(P.links)

AddLink(P, link, link_mapped) ==
    [links |-> Append(P.links, link),
     text_widgets |-> Append(P.text_widgets, link_mapped),
     link_widgets |-> Append(P.link_widgets, link_mapped),
     raised |-> P.raised]

RegisterLink(P, link_path, link_text) ==
    AddLink(P, <<link_path, link_text>>, LinkWidget(link_path, link_text, NextLinkIndex(P)))

\* _process_link, the reference and the trimmed text having been read
ProcessHref(P, href, link_path, link_text) ==
    IF ~IsExternal(href) /\ link_path # <<>> /\ link_text # <<>>
    THEN RegisterLink(P, link_path, link_text)
    ELSE P

\* link_elem.get('href', '')
Href(link_elem) == IF "href" \in link_elem.attrs.has THEN link_elem.attrs.href ELSE <<>>

ProcessLink(P, link_elem) ==
    ProcessHref(P, Href(link_elem), NormalizeLink(Href(link_elem)),
                Strip(GetText(link_elem)))

RECURSIVE ProcessLinks(_, _)
ProcessLinks(P, anchors) ==
    IF anchors = <<>> THEN P
    ELSE ProcessLinks(ProcessLink(P, Head(anchors)), Tail(anchors))

AddWidget(P, w) == [P EXCEPT !.text_widgets = Append(@, w)]

\* ProcessParaText with the links registered before the text is emitted
ProcessParaTextLinksFirst(P, para, para_text) ==
    IF para_text # <<>>
    THEN AddWidget(ProcessLinks(P, FindAnchors(para)), UrwidText("", para_text))
    ELSE P

\* _process_paragraph, the trimmed text having been read
ProcessParaText(P, para, para_text) ==
    IF para_text # <<>>
    THEN ProcessLinks(AddWidget(P, UrwidText("", para_text)), FindAnchors(para))
    ELSE P

ProcessParagraph(P, para) == ProcessParaText(P, para, Strip(GetText(para)))

\* one item of a list, its trimmed text having been read
ListItem(P, text) ==
    IF text # <<>> THEN AddWidget(P, UrwidText("", <<" ", " ", ChBullet, " ">> \o text))
    ELSE P

RECURSIVE ListItems(_, _)
ListItems(P, lis) ==
    IF lis = <<>> THEN P
    ELSE ListItems(ListItem(P, Strip(GetText(Head(lis)))), Tail(lis))

ProcessList(P, list_elem) ==
    ProcessLinks(ListItems(P, FindAllDirect(list_elem, {"li"})), FindAnchors(list_elem))

\* '#' * n
Hashes(n) == [i \in 1..n |-> "#"]

HeadingLevel(name) ==
    CASE name = "h1" -> 1 [] name = "h2" -> 2 [] name = "h3" -> 3 [] name = "h4" -> 4

Heading(level, text) ==
    UrwidText("heading", Hashes(level * 2) \o <<" ">> \o text \o <<" ">> \o Hashes(level * 2))

ProcessHeading(P, child) ==
    AddWidget(AddWidget(AddWidget(P, UrwidDivider(<<" ">>)),
                        Heading(HeadingLevel(child.name), Strip(GetText(child)))),
              UrwidDivider(<<" ">>))

\* a cell of a table: (text, colspan, rowspan)
TableCell(cell) ==
    <<GetTextSep(cell),
      Min(IF "colspan" \in cell.attrs.has THEN cell.attrs.colspan ELSE 1, 5),
      Min(IF "rowspan" \in cell.attrs.has THEN cell.attrs.rowspan ELSE 1, 5)>>

TableCells(cells) == [i \in 1..Len(cells) |-> TableCell(cells[i])]

TableRowsOf(trs) == [i \in 1..Len(trs) |-> TableCells(FindAll(trs[i], {"td", "th"}))]

\* the rows of a table
TableRows(element) == TableRowsOf(FindAll(element, {"tr"}))

(***************************************************************************)
(* textwrap.wrap(text, width) with the default options, for a text of      *)
(* letters and blanks (no tab, no hyphen: the only hyphens wrap_cell_text  *)
(* hands it end a chunk and are followed by a blank, where textwrap does   *)
(* not break).  Both call sites pass width >= 1.                           *)
(***************************************************************************)
IsBlank(chunk) == \A i \in 1..Len(chunk) : chunk[i] \in Whitespace

\* the maximal runs of blanks and of non-blanks of a text, in order
RECURSIVE Chunks(_)
Chunks(text) ==
    IF text = <<>> THEN <<>>
    ELSE LET blank == Head(text) \in Whitespace
             ends == {i \in 1..Len(text) : (text[i] \in Whitespace) # blank}
             n == IF ends = {} THEN Len(text)
                  ELSE (CHOOSE i \in ends : \A j \in ends : i <= j) - 1
         IN <<SubSeq(text, 1, n)>> \o Chunks(From(text, n + 1))

\* text.split()
Split(text) == SelectSeq(Chunks(text), LAMBDA c : ~IsBlank(c))

\* TextWrapper._wrap_chunks: the inner loop that fills one line
RECURSIVE FillLine(_, _, _, _)
FillLine(chunks, width, cur_line, cur_len) ==
    IF chunks # <<>> /\ cur_len + Len(Head(chunks)) <= width
    THEN FillLine(Tail(chunks), width, Append(cur_line, Head(chunks)),
                  cur_len + Len(Head(chunks)))
    ELSE [cur_line |-> cur_line, cur_len |-> cur_len, chunks |-> chunks]

\* TextWrapper._handle_long_word with break_long_words=True: the line takes
\* what fits of a chunk longer than the width
HandleLongWord(f, width) ==
    IF f.chunks # <<>> /\ Len(Head(f.chunks)) > width
    THEN [cur_line |-> Append(f.cur_line,
                              SubSeq(Head(f.chunks), 1,
                                     IF width < 1 THEN 1 ELSE width - f.cur_len)),
          chunks |-> <<From(Head(f.chunks),
                            (IF width < 1 THEN 1 ELSE width - f.cur_len) + 1)>>
                     \o Tail(f.chunks)]
    ELSE [cur_line |-> f.cur_line, chunks |-> f.chunks]

\* drop_whitespace at the end of a line
DropTrailingBlank(cur_line) ==
    IF cur_line # <<>> /\ IsBlank(cur_line[Len(cur_line)])
    THEN SubSeq(cur_line, 1, Len(cur_line) - 1) ELSE cur_line

\* TextWrapper._wrap_chunks: one line per iteration of the outer loop
RECURSIVE WrapChunks(_, _, _)
WrapChunks(chunks, width, lines) ==
    IF chunks = <<>> THEN lines
    ELSE LET Emit(long) ==
                 WrapChunks(long.chunks, width,
                            LET cur_line == DropTrailingBlank(long.cur_line)
                            IN IF cur_line # <<>> THEN Append(lines, Concat(cur_line))
                               ELSE lines)
         IN Emit(HandleLongWord(
                     FillLine(IF IsBlank(Head(chunks)) /\ lines # <<>>
                              THEN Tail(chunks) ELSE chunks,
                              width, <<>>, 0),
                     width))

TextWrap(text, width) == WrapChunks(Chunks(text), width, <<>>)

(***************************************************************************)
(* _process_table: the layout of a table with at least one row.            *)
(***************************************************************************)
\* the characters of the box, one ASCII character for each
BoxH == "-"     \* U+2500
BoxV == "|"     \* U+2502
BoxTL == "/"    \* U+250C
BoxTM == "^"    \* U+252C
BoxTR == "\\"   \* U+2510
BoxML == "{"    \* U+251C
BoxMM == "+"    \* U+253C
BoxMR == "}"    \* U+2524
BoxBL == "~"    \* U+2514
BoxBM == "="    \* U+2534
BoxBR == "!"    \* U+2518

\* [x] * n: nothing for n <= 0
Repeat(x, n) == [i \in 1..Max(n, 0) |-> x]

\* the while loop over occupied positions before a source cell is placed
RECURSIVE PlaceOccupied(_, _, _, _)
PlaceOccupied(grid_row, r_idx, c_idx, occupied) ==
    IF <<r_idx, c_idx>> \in DOMAIN occupied
    THEN PlaceOccupied(
             Append(grid_row, occupied[<<r_idx, c_idx>>][1]), r_idx, c_idx + 1,
             IF occupied[<<r_idx, c_idx>>][2] - 1 <= 0
             THEN [k \in DOMAIN occupied \ {<<r_idx, c_idx>>} |-> occupied[k]]
             ELSE [occupied EXCEPT ![<<r_idx, c_idx>>] = <<@[1], @[2] - 1>>])
    ELSE [grid_row |-> grid_row, c_idx |-> c_idx, occupied |-> occupied]

\* the cell's own text in its continuation columns
ContinuationTextCopied(cell_text) == cell_text

\* the text a continuation column of a colspan cell receives
ContinuationText(cell_text) == <<>>

\* the positions a cell at (r_idx, c_idx) occupies in the rows below it
Spanned(r_idx, c_idx, rowspan) == {<<r_idx + rr, c_idx>> : rr \in 1..(rowspan - 1)}

\* a source cell (cell_text, colspan, rowspan) placed where the occupied
\* positions end (o)
PlaceSource(o, r_idx, cell_text, colspan, rowspan) ==
    [grid_row |-> Append(o.grid_row, cell_text)
                  \o Repeat(ContinuationText(cell_text), colspan - 1),
     c_idx |-> o.c_idx + colspan,
     occupied |-> [k \in DOMAIN o.occupied \cup Spanned(r_idx, o.c_idx, rowspan) |->
                      IF k \in Spanned(r_idx, o.c_idx, rowspan)
                      THEN <<cell_text, rowspan - (k[1] - r_idx)>>
                      ELSE o.occupied[k]]]

\* one source cell placed in the row under construction
PlaceCell(st, r_idx, cell) ==
    PlaceSource(PlaceOccupied(st.grid_row, r_idx, st.c_idx, st.occupied),
                r_idx, cell[1], cell[2], cell[3])

\* one row of the grid, left to right
RECURSIVE GridRow(_, _, _)
GridRow(st, r_idx, row) ==
    IF row = <<>> THEN st ELSE GridRow(PlaceCell(st, r_idx, Head(row)), r_idx, Tail(row))

\* grid resolution, before padding: rows are numbered from 0
RECURSIVE ResolveRows(_, _, _, _)
ResolveRows(rows, r_idx, occupied, grid) ==
    IF r_idx >= Len(rows) THEN grid
    ELSE LET Next_(st) == ResolveRows(rows, r_idx + 1, st.occupied, Append(grid, st.grid_row))
         IN Next_(GridRow([grid_row |-> <<>>, c_idx |-> 0, occupied |-> occupied],
                          r_idx, rows[r_idx + 1]))

RECURSIVE SeqMax(_, _)
SeqMax(ns, least) == IF ns = <<>> THEN least ELSE SeqMax(Tail(ns), Max(least, Head(ns)))

RECURSIVE SeqSum(_)
SeqSum(ns) == IF ns = <<>> THEN 0 ELSE Head(ns) + SeqSum(Tail(ns))

\* num_cols of a resolved grid (the grid has at least one row)
NumCols(grid) == SeqMax([r \in 1..Len(grid) |-> Len(grid[r])], Len(grid[1]))

\* every row padded to num_cols
Pad(grid, num_cols) ==
    [r \in 1..Len(grid) |-> grid[r] \o Repeat(<<>>, num_cols - Len(grid[r]))]

ResolveGrid(rows) == ResolveRows(rows, 0, <<>>, <<>>)

PadGrid(grid) == Pad(grid, NumCols(grid))

\* the grid of a table
Grid(rows) == PadGrid(ResolveGrid(rows))

\* the lengths of the strings of a sequence
Lens(ss) == [i \in 1..Len(ss) |-> Len(ss[i])]

\* the words of the cells of a column
Words(cells) == Concat([i \in 1..Len(cells) |-> Split(cells[i])])

\* the width of a column, given its non-empty cells
CellsWidth(cells) ==
    Max(SeqMax(Lens(Words(cells)), 1), Min(SeqMax(Lens(cells), 1), 30))

\* col_widths before scaling
NaturalWidths(grid) ==
    [c \in 1..Len(grid[1]) |->
        CellsWidth(SelectSeq([r \in 1..Len(grid) |-> grid[r][c]], LAMBDA t : t # <<>>))]

\* int(x / y) for integers x and y > 0: truncation towards zero.  The code
\* multiplies by the floating-point ratio; for the column widths and the
\* widths of the tables laid out here the two agree.
TruncDiv(x, y) == IF x >= 0 THEN x \div y ELSE -((-x) \div y)

\* a scaled column width: int(w * scale) with scale = room / sum, floored at 5
ScaledWidth(w, room, sum) == Max(5, TruncDiv(w * room, sum))

\* whether the table is too wide for term_width
TooWide(col_widths, term_width) ==
    SeqSum(col_widths) + (3 * (Len(col_widths) - 1)) + 2 > term_width

\* col_widths scaled down when the table is too wide
Scale(col_widths, term_width) ==
    IF TooWide(col_widths, term_width)
    THEN [c \in 1..Len(col_widths) |->
             ScaledWidth(col_widths[c], term_width - (3 * (Len(col_widths) - 1)) - 2,
                         SeqSum(col_widths))]
    ELSE col_widths

ColWidths(grid, term_width) == Scale(NaturalWidths(grid), term_width)

\* every chunk but the last takes a hyphen
Hyphenate(chunks) ==
    [i \in 1..Len(chunks) |-> IF i < Len(chunks) THEN chunks[i] \o <<"-">> ELSE chunks[i]]

\* WordChunks splitting also the word that fills the width exactly
WordChunksStrict(word, width) ==
    IF Len(word) < width THEN <<word>> ELSE Hyphenate(TextWrap(word, width - 1))

\* the chunks wrap_cell_text makes of one word
WordChunks(word, width) ==
    IF Len(word) <= width THEN <<word>> ELSE Hyphenate(TextWrap(word, width - 1))

\* x or [""]
OrEmptyLine(lines) == IF lines = <<>> THEN <<<<>>>> ELSE lines

WrapWords(words, width) ==
    OrEmptyLine(TextWrap(Join(Concat([i \in 1..Len(words) |-> WordChunks(words[i], width)]),
                              <<" ">>),
                         width))

wrap_cell_text(text, width) ==
    IF text = <<>> THEN <<<<>>>> ELSE WrapWords(Split(text), width)

WrappedGrid(grid, col_widths) ==
    [r \in 1..Len(grid) |->
        [c \in 1..Len(grid[r]) |-> wrap_cell_text(grid[r][c], col_widths[c])]]

\* s.ljust(w)
LJust(s, w) == s \o Repeat(" ", w - Len(s))

make_separator(col_widths, left, mid, right) ==
    <<left>> \o Join([c \in 1..Len(col_widths) |-> Repeat(BoxH, col_widths[c] + 2)], <<mid>>)
             \o <<right>>

\* one line of a row of the wrapped grid; line_idx counts from 1
RowLine(row, col_widths, line_idx) ==
    <<BoxV>>
    \o Join([c \in 1..Len(row) |->
                <<" ">> \o LJust(IF line_idx <= Len(row[c]) THEN row[c][line_idx] ELSE <<>>,
                                 col_widths[c]) \o <<" ">>],
            <<BoxV>>)
    \o <<BoxV>>

\* the lines of one row of the wrapped grid
RowLines(row, col_widths) ==
    [i \in 1..SeqMax(Lens(row), Len(row[1])) |-> RowLine(row, col_widths, i)]

\* the lines of a wrapped grid; rows count from 1 here
Render(wrapped_grid, col_widths) ==
    <<make_separator(col_widths, BoxTL, BoxTM, BoxTR)>>
    \o Concat([r \in 1..Len(wrapped_grid) |->
                  RowLines(wrapped_grid[r], col_widths)
                  \o (IF r = 1 \/ r < Len(wrapped_grid)
                      THEN <<make_separator(col_widths, BoxML, BoxMM, BoxMR)>> ELSE <<>>)])
    \o <<make_separator(col_widths, BoxBL, BoxBM, BoxBR)>>

LayOut(grid, col_widths) == Render(WrappedGrid(grid, col_widths), col_widths)

GridLines(grid, term_width) == LayOut(grid, ColWidths(grid, term_width))

\* whether the layout raises: a grid without columns has no width sum to
\* divide by and no row height (max() of an empty sequence)
TableRaises(rows, term_width) == NumCols(ResolveGrid(rows)) = 0

\* the lines of the table, unclipped
TableLines(rows, term_width) == GridLines(Grid(rows), term_width)

\* the line as it is, whatever its length
Unclipped(l, n) == l

\* l[:n]
Clip(l, n) ==
    IF n >= 0 THEN SubSeq(l, 1, Min(Len(l), n)) ELSE SubSeq(l, 1, Max(Len(l) + n, 0))

RECURSIVE AddLines(_, _, _)
AddLines(P, lines, width) ==
    IF lines = <<>> THEN P
    ELSE AddLines(AddWidget(P, UrwidText("", Clip(Head(lines), width))), Tail(lines), width)

\* what _process_table returns for a table without rows; _process_element
\* calls it for its effect on text_widgets and drops what it returns
EmptyTable ==
    <<UrwidText("", <<"(", "e", "m", "p", "t", "y", " ", "t", "a", "b", "l", "e", ")">>)>>

\* _process_table, the rows having been read
ProcessRows(P, element, rows, width) ==
    IF rows = <<>> THEN P
    ELSE IF TableRaises(rows, width) THEN [P EXCEPT !.raised = TRUE]
    ELSE ProcessLinks(AddLines(P, TableLines(rows, width), width), FindAnchors(element))

ProcessTable(P, element, width) == ProcessRows(P, element, TableRows(element), width)

\* the locals of _process_table: none before the rows are read; after an
\* early return or an exception only those assigned by then
NoTable ==
    [rows |-> <<>>, grid |-> <<>>, col_widths |-> <<>>, wrapped_grid |-> <<>>,
     lines |-> <<>>, scaled |-> FALSE, raised |-> FALSE]

\* the locals when _process_table ends, by return or by exception: the
\* layout step by step, each step handing its result to the next
Rendered(rows, grid, col_widths, scaled, wrapped_grid) ==
    [rows |-> rows, grid |-> grid, col_widths |-> col_widths,
     wrapped_grid |-> wrapped_grid, lines |-> Render(wrapped_grid, col_widths),
     scaled |-> scaled, raised |-> FALSE]

Wrapped(rows, grid, col_widths, scaled) ==
    Rendered(rows, grid, col_widths, scaled, WrappedGrid(grid, col_widths))

Measured(rows, grid, natural, term_width) ==
    Wrapped(rows, grid, Scale(natural, term_width), TooWide(natural, term_width))

Padded(rows, grid, term_width) == Measured(rows, grid, NaturalWidths(grid), term_width)

Resolved(rows, grid, term_width) ==
    IF NumCols(grid) = 0 THEN [NoTable EXCEPT !.rows = rows, !.grid = grid, !.raised = TRUE]
    ELSE Padded(rows, Pad(grid, NumCols(grid)), term_width)

TableLocals(rows, term_width) ==
    IF rows = <<>> THEN NoTable ELSE Resolved(rows, ResolveGrid(rows), term_width)

\* a text node among the children of an element
ProcessString(P, text) == IF text # <<>> THEN AddWidget(P, UrwidText("", text)) ELSE P

RECURSIVE ProcessElement(_, _, _)
RECURSIVE ProcessChildren(_, _, _)
\* one child of an element
ProcessChild(P, child, width) ==
    CASE child.name = "#text" -> ProcessString(P, Strip(child.text))
      [] child.name = "p" -> AddWidget(ProcessParagraph(P, child), UrwidDivider(<<" ">>))
      [] child.name \in {"h1", "h2", "h3", "h4"} -> ProcessHeading(P, child)
      [] child.name \in {"ul", "ol"} -> ProcessList(P, child)
      [] child.name = "div" -> ProcessElement(P, child, width)
      [] child.name = "table" -> ProcessTable(P, child, width)
      [] child.name = "a" -> ProcessLink(P, child)
      [] OTHER -> P

\* the loop over the children; an exception ends it
ProcessChildren(P, children, width) ==
    IF children = <<>> \/ P.raised THEN P
    ELSE ProcessChildren(ProcessChild(P, Head(children), width), Tail(children), width)

ProcessElement(P, element, width) == ProcessChildren(P, element.children, width)

MwContentText == <<"m", "w", "-", "c", "o", "n", "t", "e", "n", "t", "-", "t", "e", "x", "t">>

FirstOf(divs, bodies) ==
    IF divs # <<>> THEN <<divs[1]>> ELSE IF bodies # <<>> THEN <<bodies[1]>> ELSE <<>>

\* soup.find('div', {'id': 'mw-content-text'}), else soup.find('body');
\* <<>> when there is neither
FindContent(s) ==
    FirstOf(SelectSeq(FindAll(s, {"div"}),
                      LAMBDA d : "id" \in d.attrs.has /\ d.attrs.id = MwContentText),
            FindAll(s, {"body"}))

CouldNotParse ==
    UrwidText("", <<"C", "o", "u", "l", "d", " ", "n", "o", "t", " ", "p", "a", "r", "s", "e",
                    " ", "a", "r", "t", "i", "c", "l", "e", " ", "c", "o", "n", "t", "e", "n",
                    "t">>)

\* the parser's fields after parse(), with the list parse() returns
Parsed(P, widgets) ==
    [links |-> P.links, text_widgets |-> P.text_widgets, link_widgets |-> P.link_widgets,
     raised |-> P.raised, widgets |-> widgets]

Returned(P) == Parsed(P, P.text_widgets)

\* parse(), the content having been looked for
ParseContent(found, width) ==
    IF found = <<>> THEN Parsed(NewParser, <<CouldNotParse>>)
    ELSE Returned(ProcessElement(NewParser,
                                 Decompose(found[1], {"script", "style", "sup"}), width))

\* parse(max_width)
Parse(s, width) == ParseContent(FindContent(s), width)

(***************************************************************************)
(* The archive behind ZimManager: two entries whose pages link to each     *)
(* other, to the web and to a path that is no entry.                       *)
(***************************************************************************)
PathA == <<"A">>
PathB == <<"B">>
Entries == {PathA, PathB}

Wiki(p) == <<"/", "w", "i", "k", "i", "/">> \o p

Body(children) == Elem("[document]", <<Elem("html", <<Elem("body", children)>>)>>)

\* the markup of an entry, as BeautifulSoup reads it
Html(path) ==
    CASE path = PathA ->
           Body(<<Elem("h1", <<TextNode(<<"A">>)>>),
                  Elem("p", <<TextNode(<<"s", "e", "e", " ">>),
                              Anchor(Wiki(PathB), <<TextNode(<<"B">>)>>),
                              Anchor(Wiki(<<"S", "%", "2", "0", "A">>),
                                     <<TextNode(<<"S", " ", "A">>)>>)>>),
                  Anchor(<<".", ".", "/", "A">>, <<TextNode(<<"A">>)>>),
                  Anchor(<<"h", "t", "t", "p", ":", "/", "/", "x">>, <<TextNode(<<"x">>)>>)>>)
      [] path = PathB ->
           Body(<<Elem("ul", <<Elem("li", <<Anchor(Wiki(PathA), <<TextNode(<<"A">>)>>)>>)>>),
                  Elem("table",
                       <<Elem("tr", <<Cell("td", 1, 1, <<TextNode(<<"b">>)>>)>>)>>)>>)

\* what the user can have typed into the search box
Queries == {<<>>, <<"a">>}

\* the ranked matches the searcher can find: entries, none twice
Matches ==
    {m \in UNION {[1..n -> Entries] : n \in 0..MaxMatches} :
        \A i, j \in 1..Len(m) : i # j => m[i] # m[j]}

max_results == 20

\* ZimManager.search, given the searcher's matches (the estimated count is exact)
zim_search(matches) == SubSeq(matches, 1, Min(max_results, Len(matches)))

\* the text ZimManager.get_article returns in place of the markup when the
\* lookup or the decoding raises (the exception's own message left out)
ErrorText(path) == <<"E", "r", "r", "o", "r", ":", " ", " ">> \o path

(***************************************************************************)
(* WikiApp.                                                                *)
(***************************************************************************)
MODE_SEARCH == "search"
MODE_RESULTS == "results"
MODE_ARTICLE == "article"

ScreenCols == 80    \* what loop.screen.get_cols_rows() reports

\* the latest call of the archive, for the properties to speak of
NoCall == [op |-> "none", path |-> <<>>, ok |-> FALSE, results |-> <<>>]
GetArticleCall(path, ok) == [op |-> "get_article", path |-> path, ok |-> ok, results |-> <<>>]
SearchCall(results) == [op |-> "search", path |-> <<>>, ok |-> TRUE, results |-> results]

\* str(n) for 0 <= n < 100
Digit(d) == CASE d = 0 -> "0" [] d = 1 -> "1" [] d = 2 -> "2" [] d = 3 -> "3" [] d = 4 -> "4"
              [] d = 5 -> "5" [] d = 6 -> "6" [] d = 7 -> "7" [] d = 8 -> "8" [] d = 9 -> "9"
Str(n) == IF n < 10 THEN <<Digit(n)>> ELSE <<Digit(n \div 10), Digit(n % 10)>>

\* AttrMap(SelectableText(f"{i+1}. {result}"), None, focus_map='link_focus')
\* with result_path set; i counts from 0
ResultWidget(i, result) ==
    [widget |-> "Result", attr |-> "", text |-> Str(i + 1) \o <<".", " ">> \o result,
     path |-> result, index |-> -1]

\* the status bar: its "Mode: ..." word and, in an article, the link count
\* (the rest of the line is the fixed key legend of that mode)
Status(m, link_count) == [mode |-> m, link_count |-> link_count]

\* the welcome screen of setup_ui (the file's own figures left out)
Welcome ==
    <<UrwidText("", <<"\n", "W", "e", "l", "c", "o", "m", "e", " ", "t", "o", " ", "f", "a",
                     "t", "Z", "i", "m", "R", "e", "a", "d", "e", "r", ",", " ", "a", " ",
                     "f", "u", "l", "l", "y", " ", "o", "f", "f", "l", "i", "n", "e", ",",
                     " ", "t", "e", "r", "m", "i", "n", "a", "l", " ", "b", "a", "s", "e",
                     "d", ",", " ", "z", "i", "m", " ", "f", "i", "l", "e", " ", "b", "r",
                     "o", "w", "s", "e", "r">>),
      UrwidText("", <<"C", "r", "e", "a", "t", "e", "d", " ", "b", "y", " ", "F", "i", "n",
                     "n", " ", "C", "u", "l", "l", "e", "n", " ", "(", "f", "a", "t", "c",
                     "u", "l", "l", "e", "n", ")", "\n">>),
      UrwidText("", <<"F", "I", "L", "E", " ", "I", "N", "F", "O", ":">>),
      UrwidText("", <<" ", " ", "T", "i", "t", "l", "e", ":", " ">>),
      UrwidText("", <<" ", " ", "F", "i", "l", "e", " ", "S", "i", "z", "e", ":", " ">>),
      UrwidText("", <<" ", " ", "M", "a", "i", "n", " ", "E", "n", "t", "r", "y", ":", " ">>),
      UrwidText("", <<" ", " ", "A", "r", "t", "i", "c", "l", "e", " ", "C", "o", "u", "n",
                      "t", ":", " ">>)>>

\* the controller's fields as one value
State ==
    [mode |-> mode, history |-> history, current_links |-> current_links,
     link_widgets |-> link_widgets, search_results |-> search_results,
     result_widgets |-> result_widgets, content_walker |-> content_walker,
     focus_position |-> focus_position, frame_focus |-> frame_focus,
     status_text |-> status_text, running |-> running]

Becomes(S) ==
    /\ mode' = S.mode
    /\ history' = S.history
    /\ current_links' = S.current_links
    /\ link_widgets' = S.link_widgets
    /\ search_results' = S.search_results
    /\ result_widgets' = S.result_widgets
    /\ content_walker' = S.content_walker
    /\ focus_position' = S.focus_position
    /\ frame_focus' = S.frame_focus
    /\ status_text' = S.status_text
    /\ running' = S.running

\* show_search_results that returns early when nothing was found
show_search_results_unless_empty(S, query, results) ==
    IF results = <<>> THEN S
    ELSE [S EXCEPT !.search_results = results,
                   !.content_walker =
                       [i \in 1..(Len(results) + 1) |->
                           IF i = 1 THEN UrwidText("", query)
                           ELSE ResultWidget(i - 2, results[i - 1])],
                   !.focus_position = 2,
                   !.mode = MODE_RESULTS,
                   !.status_text = Status("Results", -1)]

\* show_search_results(query), the searcher having returned results
show_search_results(S, query, results) ==
    LET widgets == [i \in 1..Len(results) |-> ResultWidget(i - 1, results[i])]
        head == UrwidText("", <<"\n", "F", "o", "u", "n", "d", " ">> \o Str(Len(results))
                              \o <<" ", "r", "e", "s", "u", "l", "t", "s", " ", "f", "o", "r",
                                   " ", "'">> \o query \o <<"'", ":", "\n">>)
    IN [S EXCEPT !.search_results = results,
                 !.content_walker = <<head>> \o widgets,
                 !.result_widgets = widgets,
                 !.focus_position = IF Len(widgets) + 1 > 1 THEN 2 ELSE 1,
                 !.mode = MODE_RESULTS,
                 !.status_text = Status("Results", -1)]

\* show_error that records the failing path in the history
show_error_pushing(S, path) ==
    [S EXCEPT !.content_walker = <<UrwidText("", ErrorText(path))>>,
              !.focus_position = 1,
              !.history = Append(@, path)]

\* show_error that falls back to search mode
show_error_to_search(S, path) ==
    [S EXCEPT !.content_walker = <<UrwidText("", ErrorText(path))>>,
              !.focus_position = 1,
              !.mode = MODE_SEARCH]

\* show_error that enters article mode to show the error
show_error_as_article(S, path) ==
    [S EXCEPT !.content_walker = <<UrwidText("", ErrorText(path))>>,
              !.focus_position = 1,
              !.mode = MODE_ARTICLE]

\* load_article(path) after a failed get_article: the error text is shown
show_error(S, path) ==
    [S EXCEPT !.content_walker = <<UrwidText("", ErrorText(path))>>,
              !.focus_position = 1]

\* load_article(path) after get_article and the parse
show_article(S, path, parsed) ==
    IF parsed.raised THEN [S EXCEPT !.running = FALSE]
    ELSE [S EXCEPT
            !.current_links = parsed.links,
            !.link_widgets = parsed.link_widgets,
            !.content_walker =
                <<UrwidText("title", <<"\n">> \o path \o <<"\n">>), UrwidDivider(<<"=">>)>>
                \o parsed.widgets,
            !.focus_position = 1,
            !.history = Append(S.history, path),
            !.mode = MODE_ARTICLE,
            !.status_text = Status("Article", Len(parsed.links))]

\* load_article(path), get_article having succeeded (ok) or not
load_article(S, path, ok) ==
    IF ~ok THEN show_error(S, path)
    ELSE show_article(S, path, Parse(Html(path), ScreenCols - 2))

\* search_trigger that starts the history afresh
search_trigger_forgetting(S) ==
    [S EXCEPT !.mode = MODE_SEARCH, !.frame_focus = "header",
              !.status_text = Status("Search", -1), !.history = <<>>]

\* key '/'
search_trigger(S) ==
    [S EXCEPT !.mode = MODE_SEARCH, !.frame_focus = "header",
              !.status_text = Status("Search", -1)]

\* self.history.pop(); nothing is left to run once an exception is under way
pop(S) == IF S.running THEN [S EXCEPT !.history = SubSeq(@, 1, Len(@) - 1)] ELSE S

\* load_article(self.history[-1])
reload(S, ok) == load_article(S, S.history[Len(S.history)], ok)

\* back without the pop that removes the path load_article pushed again
back_keeping_reloaded(S, ok) == IF Len(S.history) > 1 THEN reload(pop(S), ok) ELSE S

\* key 'left' in an article
back(S, ok) == IF Len(S.history) > 1 THEN pop(reload(pop(S), ok)) ELSE S

\* the widget in focus, as a sequence: <<>> when the walker is empty
Focused(S) ==
    IF S.focus_position \in 1..Len(S.content_walker)
    THEN <<S.content_walker[S.focus_position]>> ELSE <<>>

\* the first position at which widget w stands in sequence ws, 0 when none
IndexOf(ws, w) ==
    LET hits == {i \in 1..Len(ws) : ws[i] = w}
    IN IF hits = {} THEN 0 ELSE CHOOSE i \in hits : \A j \in hits : i <= j

\* next_idx that stops at the first and the last link
next_idx_no_wrap(k, current_link_idx, n) ==
    IF k = "up"
    THEN (IF current_link_idx # -1 /\ current_link_idx > 0 THEN current_link_idx - 1
          ELSE IF current_link_idx = -1 THEN n - 1 ELSE 0)
    ELSE (IF current_link_idx # -1 /\ current_link_idx < n - 1 THEN current_link_idx + 1
          ELSE IF current_link_idx = -1 THEN 0 ELSE n - 1)

\* next_idx of the up/down branch; current_link_idx is -1 for None, links count from 0
next_idx(k, current_link_idx, n) ==
    IF k = "up"
    THEN (IF current_link_idx # -1 /\ current_link_idx > 0 THEN current_link_idx - 1
          ELSE n - 1)
    ELSE (IF current_link_idx # -1 /\ current_link_idx < n - 1 THEN current_link_idx + 1
          ELSE 0)

\* _focus_link(link_index)
focus_at(S, i) == IF i = 0 THEN S ELSE [S EXCEPT !.focus_position = i]

focus_link(S, link_index) ==
    IF 0 <= link_index /\ link_index < Len(S.link_widgets)
    THEN focus_at(S, IndexOf(S.content_walker, S.link_widgets[link_index + 1]))
    ELSE S

\* keys 'up' and 'down' in an article
\* current_link_idx: the place of the focused widget f among the link
\* widgets, -1 for None
link_idx_of(S, f) == IF f = <<>> THEN -1 ELSE IndexOf(S.link_widgets, f[1]) - 1

up_down(S, k) ==
    IF S.link_widgets = <<>> THEN S
    ELSE focus_link(S, next_idx(k, link_idx_of(S, Focused(S)), Len(S.link_widgets)))

Keys == {"q", "/", "r", "enter", "right", "left", "up", "down", " ", "x"}
NoKey == "none"

InitNav ==
    /\ mode = MODE_SEARCH
    /\ history = <<>>
    /\ current_links = <<>>
    /\ link_widgets = <<>>
    /\ search_results = <<>>
    /\ result_widgets = <<>>
    /\ content_walker = Welcome
    /\ focus_position = 1
    /\ frame_focus = "body"
    /\ status_text = Status("Start", -1)
    /\ search_edit = <<>>
    /\ running = TRUE
    /\ key = NoKey
    /\ zim_call = NoCall

\* no parse is under way outside load_article
InitNoParse ==
    /\ soup = Elem("[document]", <<>>)
    /\ parser = [NewParser EXCEPT !.raised = FALSE]
    /\ max_width = 80
    /\ table = NoTable
    /\ pc = "idle"

Init == InitNav /\ InitNoParse

\* handle_input('q'): ExitMainLoop ends the loop
KeyQuit ==
    /\ running
    /\ key' = "q"
    /\ zim_call' = NoCall
    /\ Becomes([State EXCEPT !.running = FALSE])
    /\ UNCHANGED <<search_edit, parsevars>>

\* handle_input('/')
KeySearch ==
    /\ running
    /\ key' = "/"
    /\ zim_call' = NoCall
    /\ Becomes(search_trigger(State))
    /\ UNCHANGED <<search_edit, parsevars>>

\* handle_input('r'): the load, after which no branch of the mode dispatch
\* has anything to do for this key
KeyRandom ==
    /\ running
    /\ Len(history) < MaxHistory
    /\ \E path \in Entries, ok \in BOOLEAN :
          /\ key' = "r"
          /\ zim_call' = GetArticleCall(path, ok)
          /\ Becomes(load_article(State, path, ok))
    /\ UNCHANGED <<search_edit, parsevars>>

\* handle_input('enter') in search mode
KeySubmit ==
    /\ running
    /\ mode = MODE_SEARCH
    /\ key' = "enter"
    /\ IF search_edit # <<>>
       THEN \E matches \in Matches :
              /\ zim_call' = SearchCall(zim_search(matches))
              /\ Becomes([show_search_results(State, search_edit, zim_search(matches))
                             EXCEPT !.frame_focus = "body"])
       ELSE /\ zim_call' = NoCall
            /\ Becomes(State)
    /\ UNCHANGED <<search_edit, parsevars>>

\* handle_input('enter' or 'right') in results mode
KeySelect ==
    /\ running
    /\ mode = MODE_RESULTS
    /\ Len(history) < MaxHistory
    /\ \E k \in {"enter", "right"} :
          /\ key' = k
          /\ LET f == Focused(State)
             IN IF f # <<>> /\ f[1].widget = "Result"
                THEN \E ok \in BOOLEAN :
                       /\ zim_call' = GetArticleCall(f[1].path, ok /\ f[1].path \in Entries)
                       /\ Becomes(load_article(State, f[1].path, ok /\ f[1].path \in Entries))
                ELSE /\ zim_call' = NoCall
                     /\ Becomes(State)
    /\ UNCHANGED <<search_edit, parsevars>>

\* handle_input('left') in article mode
KeyBack ==
    /\ running
    /\ mode = MODE_ARTICLE
    /\ key' = "left"
    /\ IF Len(history) > 1
       THEN \E ok \in BOOLEAN :
              /\ zim_call' = GetArticleCall(history[Len(history) - 1],
                                            ok /\ history[Len(history) - 1] \in Entries)
              /\ Becomes(back(State, ok /\ history[Len(history) - 1] \in Entries))
       ELSE /\ zim_call' = NoCall
            /\ Becomes(back(State, FALSE))
    /\ UNCHANGED <<search_edit, parsevars>>

\* handle_input('right' or 'enter') in article mode
KeyFollow ==
    /\ running
    /\ mode = MODE_ARTICLE
    /\ Len(history) < MaxHistory
    /\ \E k \in {"right", "enter"} :
          /\ key' = k
          /\ LET f == Focused(State)
             IN IF f # <<>> /\ f[1].widget = "Link"
                THEN \E ok \in BOOLEAN :
                       /\ zim_call' = GetArticleCall(f[1].path, ok /\ f[1].path \in Entries)
                       /\ Becomes(load_article(State, f[1].path, ok /\ f[1].path \in Entries))
                ELSE /\ zim_call' = NoCall
                     /\ Becomes(State)
    /\ UNCHANGED <<search_edit, parsevars>>

\* handle_input('up' or 'down') in article mode
KeyUpDown ==
    /\ running
    /\ mode = MODE_ARTICLE
    /\ \E k \in {"up", "down"} :
          /\ key' = k
          /\ Becomes(up_down(State, k))
    /\ zim_call' = NoCall
    /\ UNCHANGED <<search_edit, parsevars>>

\* handle_input(' ') in article mode: content_list.keypress(size, 'down'),
\* rows - 7 times; the list box moves its focus down to a selectable widget,
\* as far as the screen lets it
KeySpace ==
    /\ running
    /\ mode = MODE_ARTICLE
    /\ key' = " "
    /\ zim_call' = NoCall
    /\ \E i \in focus_position..Len(content_walker) :
          /\ i = focus_position \/ content_walker[i].widget = "Link"
          /\ Becomes([State EXCEPT !.focus_position = i])
    /\ UNCHANGED <<search_edit, parsevars>>

\* handle_input of a key the mode has no branch for
KeyOther ==
    /\ running
    /\ \E k \in Keys :
          /\ \/ mode = MODE_SEARCH /\ k \notin {"q", "/", "r", "enter"}
             \/ mode = MODE_RESULTS /\ k \notin {"q", "/", "r", "enter", "right"}
             \/ mode = MODE_ARTICLE
                /\ k \notin {"q", "/", "r", "enter", "right", "left", "up", "down", " "}
          /\ key' = k
    /\ zim_call' = NoCall
    /\ Becomes(State)
    /\ UNCHANGED <<search_edit, parsevars>>

\* the Edit widget of the header takes the characters typed into it
EditText ==
    /\ running
    /\ frame_focus = "header"
    /\ \E q \in Queries : search_edit' = q
    /\ key' = NoKey
    /\ zim_call' = NoCall
    /\ Becomes(State)
    /\ UNCHANGED parsevars

\* the ListBox of the body moves its focus to another selectable widget on
\* the keys it handles itself
ListBoxFocus ==
    /\ running
    /\ frame_focus = "body"
    /\ \E i \in 1..Len(content_walker) :
          /\ content_walker[i].widget \in {"Link", "Result"}
          /\ Becomes([State EXCEPT !.focus_position = i])
    /\ key' = NoKey
    /\ zim_call' = NoCall
    /\ UNCHANGED <<search_edit, parsevars>>

Next ==
    \/ KeyQuit
    \/ KeySearch
    \/ KeyRandom
    \/ KeySubmit
    \/ KeySelect
    \/ KeyBack
    \/ KeyFollow
    \/ KeyUpDown
    \/ KeySpace
    \/ KeyOther
    \/ EditText
    \/ ListBoxFocus

Spec == Init /\ [][Next]_vars

(***************************************************************************)
(* _process_link on its own: one anchor, its target reference drawn from   *)
(* the references MaxSegs segments make, with or without a scheme prefix   *)
(* and a fragment.                                                         *)
(***************************************************************************)
SeqsUpTo(S, n) == UNION {[1..k -> S] : k \in 0..n}

Segments ==
    {<<".", ".", "/">>, <<"/", "w", "i", "k", "i", "/">>, <<"S", "o", "m", "e">>,
     <<"A", "r", "t", "i", "c", "l", "e">>, <<"%", "2", "0">>, <<" ">>, <<"_">>}

Prefixes ==
    {<<>>, <<"h", "t", "t", "p", ":", "/", "/">>, <<"h", "t", "t", "p", "s", ":", "/", "/">>,
     <<"/", "/">>, <<"#">>, <<"m", "a", "i", "l", "t", "o", ":">>}

Fragments == {<<>>, <<"#", "S", "e", "c", "t", "i", "o", "n">>}

Hrefs == {p \o Concat(b) \o f : p \in Prefixes, b \in SeqsUpTo(Segments, MaxSegs), f \in Fragments}

InitLink ==
    /\ InitNav
    /\ soup \in {Anchor(h, <<TextNode(<<"x">>)>>) : h \in Hrefs}
    /\ parser = Returned(NewParser)
    /\ max_width = ScreenCols - 2
    /\ table = NoTable
    /\ pc = "link"

LinkStep ==
    /\ pc = "link"
    /\ parser' = Returned(ProcessLink(parser, soup))
    /\ pc' = "done"
    /\ UNCHANGED <<navvars, soup, max_width, table>>

SpecLink == InitLink /\ [][LinkStep]_vars

(***************************************************************************)
(* parse() on its own: the markup tree drawn from the trees of at most     *)
(* MaxChildren blocks under the body or the content container, or under    *)
(* neither.                                                                *)
(***************************************************************************)
MaxChildren == 2

NodeT == TextNode(<<"t", " ">>)
NodeA == Anchor(Wiki(PathA), <<TextNode(<<"A">>)>>)
NodeB == Anchor(Wiki(PathB), <<TextNode(<<" ", "B">>)>>)
NodeX == Anchor(<<"h", "t", "t", "p", ":", "/", "/", "x">>, <<TextNode(<<"x">>)>>)
\* an anchor without text, and one without a reference
NodeU == Anchor(Wiki(PathA), <<>>)
NodeN == Elem("a", <<TextNode(<<"n">>)>>)

\* what a block holds
Fillings ==
    {<<>>, <<NodeT>>, <<NodeA>>, <<NodeT, NodeA, NodeB>>, <<NodeX, NodeB>>, <<NodeU, NodeN, NodeA>>}

Blocks ==
    {NodeT, NodeA, NodeX, Elem("h2", <<NodeT, NodeA>>), Elem("span", <<NodeA>>),
     Elem("div", <<Elem("p", <<NodeT, NodeA>>), NodeB>>),
     Elem("table", <<Elem("tr", <<>>)>>)}
    \cup {Elem(n, f) : n \in {"p", "div", "sup"}, f \in Fillings}
    \cup {Elem("ul", <<Elem("li", f), Elem("li", <<>>)>>) : f \in Fillings}
    \cup {Elem("table", <<Elem("tr", <<Cell("th", 1, 1, <<NodeT>>), Cell("td", 1, 1, f)>>)>>) :
            f \in Fillings}
    \cup {Elem("table", <<Elem("caption", f)>>) : f \in Fillings}

Trees ==
    {Elem("[document]", <<Elem(root[1], <<ElemId(root[2], root[3], children)>>)>>) :
        root \in {<<"html", "body", <<>>>>, <<"body", "div", MwContentText>>,
                  <<"span", "div", <<"x">>>>},
        children \in SeqsUpTo(Blocks, MaxChildren)}

InitParse ==
    /\ InitNav
    /\ soup \in Trees
    /\ parser = Returned(NewParser)
    /\ max_width = ScreenCols - 2
    /\ table = NoTable
    /\ pc = "parse"

ParseStep ==
    /\ pc = "parse"
    /\ parser' = Parse(soup, max_width)
    /\ pc' = "done"
    /\ UNCHANGED <<navvars, soup, max_width, table>>

SpecParse == InitParse /\ [][ParseStep]_vars

(***************************************************************************)
(* parse() of a page with one anchor under test, followed by an internal   *)
(* link to B, in each place the builder looks for anchors: directly in the *)
(* container, in a nested container, in a paragraph, in a list item and in *)
(* a table cell.  The anchor's reference is any of Prefixes followed by at *)
(* most MaxRefSegs segments and, or not, a fragment.                       *)
(***************************************************************************)
MaxRefSegs == 2

Refs ==
    {p \o Concat(b) \o f : p \in Prefixes, b \in SeqsUpTo(Segments, MaxRefSegs),
                            f \in Fragments}

AnchorPlaces == {"container", "div", "p", "ul", "table"}

\* the page with the anchors x and NodeB at a place
AnchorAt(place, x) ==
    Body(CASE place = "container" -> <<x, NodeB>>
           [] place = "div" -> <<Elem("div", <<x, NodeB>>)>>
           [] place = "p" -> <<Elem("p", <<NodeT, x, NodeB>>)>>
           [] place = "ul" -> <<Elem("ul", <<Elem("li", <<NodeT, x, NodeB>>)>>)>>
           [] place = "table" ->
                <<Elem("table", <<Elem("tr", <<Cell("td", 1, 1, <<x, NodeB>>)>>)>>)>>)

AnchorTrees ==
    {AnchorAt(place, Anchor(h, <<TextNode(<<"x">>)>>)) : place \in AnchorPlaces, h \in Refs}

InitAnchor ==
    /\ InitNav
    /\ soup \in AnchorTrees
    /\ parser = Returned(NewParser)
    /\ max_width = ScreenCols - 2
    /\ table = NoTable
    /\ pc = "parse"

SpecAnchor == InitAnchor /\ [][ParseStep]_vars

(***************************************************************************)
(* _process_table on its own: a table of at most MaxRows rows and MaxCells *)
(* cells in all, each cell one of CellKinds, laid out for one of Widths.   *)
(* The span attributes are below, within and above the range the layout    *)
(* is written for; a row can have no cell and the table no row.            *)
(***************************************************************************)
MaxRows == 2
MaxCells == 2

CellKinds ==
    {Elem("td", <<TextNode(<<"a">>)>>),
     Cell("th", 1, 1, <<TextNode(<<"b", "c", "d", "e", "f", "g", "h", " ", "i", "j">>)>>),
     Cell("td", 2, 1, <<TextNode(<<"c">>)>>),
     Cell("td", 1, 2, <<TextNode(<<"d">>)>>),
     Cell("td", -1, 0, <<TextNode(<<"e">>)>>),
     Cell("td", 7, 7, <<TextNode(<<"f">>)>>),
     Cell("td", 1, 1, <<>>),
     Cell("td", 1, 1, <<TextNode(<<"k", "l", " ", "m", "n", " ", "o", "p", " ", "q", "r", " ",
                                   "s", "t", " ", "u", "v", " ", "w", "x", " ", "y", "z", " ",
                                   "k", "l", " ", "m", "n", " ", "o", "p">>)>>)}

\* max_width: nothing, too little for one column, too little for the long
\* cells, and the screen's
Widths == {0, 2, 9, ScreenCols - 2}

\* the numbers of cells of the rows of a table
Shapes == {sh \in SeqsUpTo(0..MaxCells, MaxRows) : SeqSum(sh) <= MaxCells}

\* the table of a shape whose cells, row after row, are cells
TableOf(sh, cells) ==
    Elem("table",
         [r \in 1..Len(sh) |->
             Elem("tr", SubSeq(cells, SeqSum(SubSeq(sh, 1, r - 1)) + 1,
                               SeqSum(SubSeq(sh, 1, r))))])

Tables == UNION {{TableOf(sh, cells) : cells \in [1..SeqSum(sh) -> CellKinds]} : sh \in Shapes}

InitTable ==
    /\ InitNav
    /\ soup \in Tables
    /\ parser = Returned(NewParser)
    /\ max_width \in Widths
    /\ table = NoTable
    /\ pc = "table"

\* _process_table(soup) by a parser that has no block yet
TableStep ==
    /\ pc = "table"
    /\ table' = TableLocals(TableRows(soup), max_width)
    /\ parser' = Returned(ProcessTable(NewParser, soup, max_width))
    /\ pc' = "done"
    /\ UNCHANGED <<navvars, soup, max_width>>

SpecTable == InitTable /\ [][TableStep]_vars

(***************************************************************************)
(* The properties.                                                         *)
(***************************************************************************)
\* the latest handle_input call fetched an article, with or without success
Fetched(call) == call.op = "get_article"
FetchOk(call) == call.op = "get_article" /\ call.ok
FetchFailed(call) == call.op = "get_article" /\ ~call.ok

\* all of s but its last element
Front(h) == SubSeq(h, 1, Len(h) - 1)

\* C1: in every reachable state, article mode implies a non-empty history
\* (also after a Back whose re-fetch fails).
C1_ArticleHasHistory == mode = MODE_ARTICLE => history # <<>>

\* C2: history is a stack under navigation.  A successful forward navigation
\* (result selected, link followed) to path P turns h into h + [P]; a Back in
\* article mode with len(history) > 1 whose re-fetch succeeds turns h + [P]
\* into h; a Back with len(history) <= 1 changes neither the history nor the
\* mode nor the document on display.
C2_HistoryIsStack ==
    [][/\ (key' \in {"enter", "right"} /\ mode \in {MODE_RESULTS, MODE_ARTICLE}
           /\ FetchOk(zim_call') /\ running')
          => history' = Append(history, zim_call'.path)
       /\ (key' = "left" /\ mode = MODE_ARTICLE /\ Len(history) > 1
           /\ FetchOk(zim_call') /\ running')
          => /\ history' = Front(history)
             /\ zim_call'.path = history'[Len(history')]
       /\ (key' = "left" /\ mode = MODE_ARTICLE /\ Len(history) <= 1)
          => /\ history' = history
             /\ mode' = mode
             /\ content_walker' = content_walker
             /\ current_links' = current_links
             /\ link_widgets' = link_widgets
             /\ zim_call' = NoCall]_vars

\* a Back has just succeeded and left a history of one path
C2_Witness ==
    key = "left" /\ FetchOk(zim_call) /\ Len(history) = 1 /\ mode = MODE_ARTICLE

\* C3: after any fetch failure the document on display is the error
\* placeholder and its link registry is empty: neither the link list nor the
\* link-widget list keeps an entry of the article shown before.
C3_FailureClearsLinks ==
    FetchFailed(zim_call)
    => /\ content_walker = <<UrwidText("", ErrorText(zim_call.path))>>
       /\ current_links = <<>>
       /\ link_widgets = <<>>

\* C4: a forward navigation (result selected, link followed, random article)
\* whose fetch fails leaves the history exactly as it was.
C4_FailedForwardKeepsHistory ==
    [][(key' \in {"enter", "right", "r"} /\ FetchFailed(zim_call')) => history' = history]_vars

\* a link was followed from an article, and the fetch failed
C4_Witness ==
    /\ key \in {"enter", "right"} /\ FetchFailed(zim_call)
    /\ mode = MODE_ARTICLE /\ Len(history) >= 2

\* the transitions of the mode machine: query submitted, result selected,
\* search trigger
SubmitTransition ==
    mode = MODE_SEARCH /\ mode' = MODE_RESULTS /\ key' = "enter" /\ search_edit # <<>>
SelectTransition ==
    /\ mode = MODE_RESULTS /\ mode' = MODE_ARTICLE
    /\ key' \in {"enter", "right"} /\ FetchOk(zim_call')
TriggerTransition == mode' = MODE_SEARCH /\ key' = "/"
\* the random-article trigger with a successful fetch
RandomTransition == mode' = MODE_ARTICLE /\ key' = "r" /\ FetchOk(zim_call')

\* C5, as stated: the mode changes only on submitting a non-empty query
\* (search to results), on selecting the focused result (results to article)
\* and on the search trigger (any mode to search); no other key event
\* changes it.
C5_OnlyListedTransitions ==
    [][mode' # mode => (SubmitTransition \/ SelectTransition \/ TriggerTransition)]_vars

\* C5, amended: the mode changes only by those transitions or by the
\* random-article trigger, which on a successful fetch moves any mode to
\* article; a failed fetch and every other key leave it alone.
C5_OnlyListedOrRandom ==
    [][mode' # mode
       => (SubmitTransition \/ SelectTransition \/ TriggerTransition \/ RandomTransition)]_vars

\* the random-article key has just moved the search mode to article mode
C5_Witness ==
    key = "r" /\ FetchOk(zim_call) /\ mode = MODE_ARTICLE /\ Len(history) = 1

\* the link blocks of a document on display, in order
LinkBlocks(ws) == SelectSeq(ws, LAMBDA w : w.widget = "Link")

\* the index of the link in focus, -1 when no link is in focus
FocusedLink(ws, pos) ==
    IF pos \in 1..Len(ws) /\ ws[pos].widget = "Link" THEN ws[pos].index ELSE -1

\* C6: link-focus cycling in article mode over the n >= 1 links of the
\* document on display: with no link in focus Down focuses link 0 and Up link
\* n-1; with link i in focus Down focuses (i+1) mod n and Up (i-1+n) mod n;
\* and the link in focus is always one of the n links of the document.
C6_LinkCycling ==
    /\ [][(mode = MODE_ARTICLE /\ key' \in {"up", "down"}
           /\ Len(LinkBlocks(content_walker)) >= 1)
          => LET n == Len(LinkBlocks(content_walker))
                 i == FocusedLink(content_walker, focus_position)
             IN /\ content_walker' = content_walker
                /\ FocusedLink(content_walker', focus_position')
                   = IF key' = "down" THEN (IF i = -1 THEN 0 ELSE (i + 1) % n)
                     ELSE (IF i = -1 THEN n - 1 ELSE (i - 1 + n) % n)]_vars
    /\ [](FocusedLink(content_walker, focus_position) # -1
          => /\ FocusedLink(content_walker, focus_position)
                \in 0..(Len(LinkBlocks(content_walker)) - 1)
             /\ LinkBlocks(content_walker)[FocusedLink(content_walker, focus_position) + 1]
                = content_walker[focus_position])

\* Up has just brought the focus to the last of three links
C6_Witness ==
    /\ mode = MODE_ARTICLE /\ key = "up"
    /\ Len(LinkBlocks(content_walker)) = 3
    /\ FocusedLink(content_walker, focus_position) = 2

\* C7: the search trigger, in any mode, sets the mode to search and leaves
\* the history as it is.
C7_TriggerKeepsHistory ==
    [][key' = "/" => (mode' = MODE_SEARCH /\ history' = history)]_vars

\* the trigger has just left an article reached by two navigations
C7_Witness == key = "/" /\ mode = MODE_SEARCH /\ Len(history) >= 2

\* C8: in search mode, submitting a non-empty query moves to results and
\* stores the sequence the archive search returned, empty or not; submitting
\* an empty query changes neither mode nor search results nor history.
C8_Submit ==
    [][(mode = MODE_SEARCH /\ key' = "enter")
       => IF search_edit # <<>>
          THEN /\ mode' = MODE_RESULTS
               /\ zim_call'.op = "search"
               /\ search_results' = zim_call'.results
               /\ history' = history
          ELSE /\ mode' = mode
               /\ search_results' = search_results
               /\ history' = history]_vars

\* a submitted query found nothing, and the empty sequence replaced the
\* results of the search before
C8_Witness ==
    /\ key = "enter" /\ mode = MODE_RESULTS
    /\ zim_call.op = "search" /\ zim_call.results = <<>> /\ search_results = <<>>

\* the reference of the specification's example, and its path
ExampleRef ==
    <<"/", "w", "i", "k", "i", "/", "S", "o", "m", "e", "%", "2", "0", "A", "r", "t", "i", "c",
      "l", "e", "#", "S", "e", "c", "t", "i", "o", "n">>
ExamplePath == <<"S", "o", "m", "e", "_", "A", "r", "t", "i", "c", "l", "e">>

\* C9: the path registered for an internal link has an underscore wherever
\* the reference had a space, literal or percent-encoded, so it holds no
\* space; "/wiki/Some%20Article#Section" is registered as "Some_Article".
C9_SpacesBecomeUnderscores ==
    (pc = "done" /\ soup.name = "a" /\ parser.links # <<>>)
    => /\ \A i \in 1..Len(parser.links[1][1]) : parser.links[1][1][i] # " "
       /\ soup.attrs.href = ExampleRef => parser.links[1][1] = ExamplePath

\* C10: in every document the parser builds, the link blocks are as many as
\* the links; their indices lie in [0, len(links)) and strictly increase in
\* the order of the blocks (so each is unique); and the link block with index
\* i carries the path and the label of links[i].
C10_LinkBlocksMatchLinks ==
    (pc = "done" /\ ~parser.raised)
    => LET blocks == LinkBlocks(parser.widgets)
           links == parser.links
       IN /\ Len(blocks) = Len(links)
          /\ \A i \in 1..Len(blocks) : blocks[i].index \in 0..(Len(links) - 1)
          /\ \A i, j \in 1..Len(blocks) : i < j => blocks[i].index < blocks[j].index
          /\ \A i \in 1..Len(blocks) :
                /\ blocks[i].path = links[blocks[i].index + 1][1]
                /\ blocks[i].text
                   = <<ChArrow, " ", "[">> \o links[blocks[i].index + 1][2] \o <<"]">>
          /\ parser.link_widgets = blocks

\* a document of a table and more, with four links among other blocks
C10_Witness ==
    /\ pc = "done" /\ soup.name = "[document]" /\ ~parser.raised
    /\ Len(parser.links) >= 4
    /\ \E i \in 1..Len(parser.widgets) :
          /\ parser.widgets[i].widget = "Text"
          /\ parser.widgets[i].text # <<>>
          /\ parser.widgets[i].text[1] = BoxTL

\* the reference of the first anchor of the page, in document order
FirstRef == FindAll(soup, {"a"})[1].attrs.href

ExternalPrefixes == Prefixes \ {<<>>}

\* C11: an anchor whose reference begins with http://, https://, //, # or
\* mailto: adds nothing to the link registry and makes no link block, in the
\* container, in a nested container, in a paragraph, in a list and in a
\* table: the internal link next to it is the only link of the document.
C11_ExternalNeverRegistered ==
    (pc = "done" /\ \E p \in ExternalPrefixes : StartsWith(FirstRef, p))
    => /\ parser.links = <<<<PathB, <<"B">>>>>>
       /\ LinkBlocks(parser.widgets) = <<LinkWidget(PathB, <<"B">>, 0)>>
       /\ parser.link_widgets = <<LinkWidget(PathB, <<"B">>, 0)>>

\* a mailto: anchor in a table cell has been parsed, and the table laid out
C11_Witness ==
    /\ pc = "done"
    /\ StartsWith(FirstRef, <<"m", "a", "i", "l", "t", "o", ":", "S", "o", "m", "e">>)
    /\ FindAll(soup, {"table"}) # <<>>
    /\ Len(parser.links) = 1
    /\ Len(parser.widgets) = 5

\* the tables without rows among the children of the content container
ZeroRowTables ==
    SelectSeq(FindContent(soup)[1].children,
              LAMBDA c : c.name = "table" /\ FindAll(c, {"tr"}) = <<>>)

\* C12: a table without rows contributes exactly one block to the document,
\* the line "(empty table)": the document has one such block for each of
\* these tables.
C12_EmptyTableLine ==
    (pc = "done" /\ FindContent(soup) # <<>> /\ ~parser.raised)
    => Len(SelectSeq(parser.widgets, LAMBDA w : w = EmptyTable[1])) = Len(ZeroRowTables)

\* C13: the layout of a table is total: whatever the rows, the cells of a
\* row (none included), the span attributes and the width, it ends without
\* an exception and emits at least one line.
C13_LayoutTotal ==
    pc = "done" => (~parser.raised /\ ~table.raised /\ Len(parser.widgets) >= 1)

\* C14: for a width W >= 1, every line emitted for a table is at most W
\* long, also when the floor of 5 per column makes the scaled table wider
\* than W.
C14_LinesWithinWidth ==
    (pc = "done" /\ max_width >= 1)
    => \A i \in 1..Len(parser.widgets) : Len(parser.widgets[i].text) <= max_width

\* a table scaled down to columns of 5 has been emitted at a width of 2,
\* where the lines laid out are longer than that
C14_Witness ==
    /\ pc = "done" /\ max_width = 2 /\ table.scaled
    /\ \E c \in 1..Len(table.col_widths) : table.col_widths[c] = 5
    /\ Len(table.lines[1]) > max_width
    /\ Len(parser.widgets) = Len(table.lines)

\* C15: the colspan and the rowspan grid resolution uses for a cell lie in
\* 1..5: an attribute above 5 counts as 5, one below 1 as 1.
C15_SpansClamped ==
    pc = "done"
    => \A r \in 1..Len(table.rows) : \A c \in 1..Len(table.rows[r]) :
          table.rows[r][c][2] \in 1..5 /\ table.rows[r][c][3] \in 1..5

\* every cell of the table laid out has spans within 1..5
SpansInRange ==
    \A r \in 1..Len(table.rows) : \A c \in 1..Len(table.rows[r]) :
       table.rows[r][c][2] \in 1..5 /\ table.rows[r][c][3] \in 1..5

\* the grid column (from 0) of the j-th source cell of the first row, where
\* no position is occupied: the colspans of the cells before it
FirstRowColumn(j) == SeqSum([k \in 1..(j - 1) |-> table.rows[1][k][2]])

\* C16: grid resolution propagates a rowspan: a source cell with rowspan
\* k > 1 placed at (r, c) has its text at (r+i, c) for every 1 <= i < k that
\* is a row of the table, however many source cells that row has.  Stated
\* for the cells of the first row, whose columns the colspans before them
\* give, in tables whose spans are all within 1..5.
C16_RowspanPropagates ==
    (pc = "done" /\ table.rows # <<>> /\ ~table.raised /\ SpansInRange)
    => \A j \in 1..Len(table.rows[1]) : \A i \in 1..(table.rows[1][j][3] - 1) :
          1 + i <= Len(table.rows)
          => table.grid[1 + i][FirstRowColumn(j) + 1] = table.rows[1][j][1]

\* C17: grid resolution replicates a colspan: a source cell with colspan
\* k > 1 placed at (r, c) has its text in each of the continuation columns
\* (r, c+1) .. (r, c+k-1).  Stated for the cells of the first row, in tables
\* whose spans are all within 1..5.
C17_ColspanReplicates ==
    (pc = "done" /\ table.rows # <<>> /\ ~table.raised /\ SpansInRange)
    => \A j \in 1..Len(table.rows[1]) : \A i \in 1..(table.rows[1][j][2] - 1) :
          table.grid[1][FirstRowColumn(j) + 1 + i] = table.rows[1][j][1]

\* C17, amended: a source cell with colspan k > 1 placed at (r, c) has its
\* text at (r, c) only: each of the continuation columns (r, c+1) ..
\* (r, c+k-1) holds the empty text.  Stated for the cells of the first row,
\* in tables whose spans are all within 1..5.
C17_ContinuationEmpty ==
    (pc = "done" /\ table.rows # <<>> /\ ~table.raised /\ SpansInRange)
    => \A j \in 1..Len(table.rows[1]) :
          /\ table.grid[1][FirstRowColumn(j) + 1] = table.rows[1][j][1]
          /\ \A i \in 1..(table.rows[1][j][2] - 1) :
                table.grid[1][FirstRowColumn(j) + 1 + i] = <<>>

\* a cell "c" of two columns has been placed after a cell of one column
C17_Witness ==
    /\ pc = "done" /\ SpansInRange /\ ~table.raised
    /\ Len(table.rows) = 2 /\ Len(table.rows[1]) = 2
    /\ table.rows[1][2] = <<<<"c">>, 2, 1>>
    /\ table.grid[1] = <<<<"a">>, <<"c">>, <<>>>>

\* the first child of the content container, when it is a paragraph with text
FirstPara == FindContent(soup)[1].children[1]
FirstIsPara ==
    /\ FindContent(soup) # <<>>
    /\ FindContent(soup)[1].children # <<>>
    /\ FirstPara.name = "p"
    /\ Strip(GetText(FirstPara)) # <<>>

\* the labels of the internal links below a node, in their order in the
\* node: the anchors with a reference that is not external and with a text
InternalLabels(n) ==
    LET as == SelectSeq(FindAll(n, {"a"}),
                        LAMBDA a : /\ "href" \in a.attrs.has
                                   /\ a.attrs.href # <<>>
                                   /\ ~\E p \in ExternalPrefixes : StartsWith(a.attrs.href, p)
                                   /\ Strip(GetText(a)) # <<>>)
    IN [i \in 1..Len(as) |-> Strip(GetText(as[i]))]

\* the blocks from position i on are the link blocks 0, 1, .. of labels
LinkBlocksAt(i, labels) ==
    /\ Len(parser.widgets) >= i + Len(labels) - 1
    /\ \A k \in 1..Len(labels) :
          /\ parser.widgets[i + k - 1].widget = "Link"
          /\ parser.widgets[i + k - 1].index = k - 1
          /\ parser.widgets[i + k - 1].text = <<ChArrow, " ", "[">> \o labels[k] \o <<"]">>

\* C18, as stated: for a paragraph the builder emits the Paragraph block,
\* then the Divider, then the link blocks of the paragraph's internal
\* links in their order in the paragraph.
C18_ParagraphDividerLinks ==
    (pc = "done" /\ FirstIsPara)
    => /\ Len(parser.widgets) >= 2
       /\ parser.widgets[1] = UrwidText("", Strip(GetText(FirstPara)))
       /\ parser.widgets[2] = UrwidDivider(<<" ">>)
       /\ LinkBlocksAt(3, InternalLabels(FirstPara))

\* C18, amended: for a paragraph with text the builder emits the Paragraph
\* block, then the link blocks of the paragraph's internal links in their
\* order in the paragraph, then the Divider.
C18_ParagraphLinksDivider ==
    (pc = "done" /\ FirstIsPara)
    => /\ parser.widgets[1] = UrwidText("", Strip(GetText(FirstPara)))
       /\ LinkBlocksAt(2, InternalLabels(FirstPara))
       /\ Len(parser.widgets) >= 2 + Len(InternalLabels(FirstPara))
       /\ parser.widgets[2 + Len(InternalLabels(FirstPara))] = UrwidDivider(<<" ">>)

\* a paragraph with a text and two internal links has been emitted, and a
\* block after it
C18_Witness ==
    /\ pc = "done" /\ FirstIsPara
    /\ InternalLabels(FirstPara) = <<<<"A">>, <<"B">>>>
    /\ Len(parser.widgets) > 4
    /\ parser.widgets[4].widget = "Divider"

\* the pieces of a wrapped cell: the words of its lines, in order
Pieces(lines) == Concat([i \in 1..Len(lines) |-> Split(lines[i])])

\* a piece that ends with the hyphen of a split
IsSplitPiece(piece) == piece[Len(piece)] = "-"

\* the pieces put together again, the hyphens of the splits taken out
Rejoined(pieces) ==
    Concat([i \in 1..Len(pieces) |->
               IF IsSplitPiece(pieces[i]) THEN SubSeq(pieces[i], 1, Len(pieces[i]) - 1)
               ELSE pieces[i]])

\* the cell text of words is wrapped to pieces for a column of width: no
\* piece is longer than the width, every word ends in a piece of its own,
\* which is the whole word when the word fits the width, and the pieces
\* are the words with nothing but the hyphens of the splits added
WrappedAsClaimed(words, pieces, width) ==
    /\ \A i \in 1..Len(pieces) : Len(pieces[i]) <= width
    /\ Len(SelectSeq(pieces, LAMBDA p : ~IsSplitPiece(p))) = Len(words)
    /\ \A k \in 1..Len(words) :
          Len(words[k]) <= width
          => SelectSeq(pieces, LAMBDA p : ~IsSplitPiece(p))[k] = words[k]
    /\ Rejoined(pieces) = Concat(words)

C20_FailedFetchKeepsMode ==
    [][/\ FetchFailed(zim_call') => mode' = mode
       /\ (mode' = MODE_ARTICLE /\ mode # MODE_ARTICLE) => FetchOk(zim_call')]_vars

\* a result has been selected before any article was read, its fetch
\* failed, and the results mode is still on
C20_Witness ==
    /\ key \in {"enter", "right"} /\ FetchFailed(zim_call)
    /\ mode = MODE_RESULTS /\ history = <<>>
    /\ content_walker = <<UrwidText("", ErrorText(zim_call.path))>>

====
